---- MODULE Spec2Model ----
(***************************************************************************)
(* Account security state machine of the user management service:          *)
(* registration, login with lockout and lazy auto-unlock, e-mail           *)
(* verification tokens.  The persistent store is the users table; time is  *)
(* counted in whole hours.  Every handler is an operator from the store    *)
(* and the request to the new store and the response; the actions apply    *)
(* these operators.  Columns that no operation below reads (username,      *)
(* nickname, names, bio, urls, professional status, created/updated_at)    *)
(* are left out of the account record.                                     *)
(***************************************************************************)
EXTENDS Integers, Sequences, FiniteSets, TLC

VARIABLES users, now, ticks, nextId, nextToken, req,
          auth_request_timestamps, clock, profiles, password, accepted

vars == <<users, now, ticks, nextId, nextToken, req,
          auth_request_timestamps, clock, profiles, password, accepted>>

\* the users table and the requests on it, with the clock in hours
account_vars == <<users, now, ticks, nextId, nextToken, req>>
\* the rate limiter's map and time.time() in seconds
limiter_vars == <<auth_request_timestamps, clock>>
\* a password as it is typed and the validator's answer for it
password_vars == <<password, accepted>>

(* ------------------------------ bounds --------------------------------- *)

\* accounts ever created (every account gets a fresh id)
MaxUsers == 2
\* verification tokens ever generated (every token is fresh)
MaxTokens == 2
\* number of clock advances in one behaviour
MaxTicks == 2
\* concurrent /login/ requests in flight
MaxReq == 2
\* accounts created in the registration specification with the nickname loop
MaxRegistrations == 3
\* timestamps one client key may have inside the window
MaxRequests == 11
\* last value of the limiter's clock, in seconds
MaxClock == 120
\* failed_login_attempts an account may reach when lock checks fail
MaxFailedAttempts == 6
\* characters of a password under validation
MaxPasswordLen == 9

(* ------------------------- program constants --------------------------- *)

max_login_attempts == 5
LOCKOUT_HOURS == 1
TOKEN_TTL_HOURS == 48

NoId == 0
NoToken == 0
NoTime == -1

Emails == {"a@x.io", "b@x.io"}
UserRole == {"ANONYMOUS", "AUTHENTICATED", "MEMBER", "ADMIN"}
\* the roles a registration request is tried with
RequestRoles == {"AUTHENTICATED", "ADMIN"}
TimeSteps == {1, TOKEN_TTL_HOURS}
\* send_user_email: delivered, SMTPException (answers False), other exception
MailOutcomes == {"sent", "smtp_error", "error"}

(* ------------------------------ passwords ------------------------------ *)

Upper == {"S", "P"}
Lower == {"a", "s", "w", "e", "k"}
Digit == {"1", "2"}
\* the source's set also holds the backquote, which no modelled password uses
special_chars == {"!", "@", "#", "$", "%", "^", "&", "*", "(", ")", "-", "_",
                  "=", "+", "[", "]", "{", "}", "|", ";", ":", ",", ".", "<",
                  ">", "?", "/", "~"}

StrongA == <<"P", "a", "s", "s", "w", "@", "1", "2">>
StrongB == <<"S", "a", "s", "s", "w", "#", "2", "1">>
Weak == <<"w", "e", "a", "k">>
\* the passwords each request is tried with
RegisterPasswords == {StrongA, Weak}
LoginPasswords == {StrongA, StrongB}
ResetPasswords == {StrongB, Weak}
Passwords == {StrongA, StrongB, Weak}

AnyIn(p, S) == \E i \in 1..Len(p) : p[i] \in S

validate_password_strength_ShortAccepted(p) ==
    IF Len(p) < 7 THEN FALSE
    ELSE IF ~AnyIn(p, Upper) THEN FALSE
    ELSE IF ~AnyIn(p, Lower) THEN FALSE
    ELSE IF ~AnyIn(p, Digit) THEN FALSE
    ELSE IF ~AnyIn(p, special_chars) THEN FALSE
    ELSE TRUE

validate_password_strength(p) ==
    IF Len(p) < 8 THEN FALSE
    ELSE IF ~AnyIn(p, Upper) THEN FALSE
    ELSE IF ~AnyIn(p, Lower) THEN FALSE
    ELSE IF ~AnyIn(p, Digit) THEN FALSE
    ELSE IF ~AnyIn(p, special_chars) THEN FALSE
    ELSE TRUE

\* bcrypt: the digest is bound to the plaintext it was made from
hash_password(p) == [scheme |-> "bcrypt", rounds |-> 12, digest |-> p]

verify_password_AnyPassword(p, h) == h.scheme = "bcrypt"

verify_password(p, h) == h.digest = p

(* ------------------------------- store --------------------------------- *)

get_by_id(us, id) == IF id \in DOMAIN us THEN id ELSE NoId

get_by_email(us, e) ==
    LET S == {i \in DOMAIN us : us[i].email = e}
    IN  IF S = {} THEN NoId ELSE CHOOSE i \in S : \A j \in S : i <= j

count(us) == Cardinality(DOMAIN us)

\* session.add(user); session.commit(): the UPDATE carries the columns whose
\* value differs from the value the session loaded
Commit(us, id, loaded, cur) ==
    [us EXCEPT ![id] = [f \in DOMAIN cur |->
                           IF cur[f] # loaded[f] THEN cur[f] ELSE us[id][f]]]

(* --------------------------- account methods --------------------------- *)

AutoUnlockDue_AtBoundary(u, t) ==
    u.locked_at # NoTime /\ t - u.locked_at >= LOCKOUT_HOURS

AutoUnlockDue(u, t) ==
    u.locked_at # NoTime /\ t - u.locked_at > LOCKOUT_HOURS

unlock_account_KeepsCount(u) ==
    [u EXCEPT !.is_locked = FALSE, !.locked_at = NoTime]

unlock_account(u) ==
    [u EXCEPT !.is_locked = FALSE, !.failed_login_attempts = 0,
              !.locked_at = NoTime]

TokenExpired_AtBoundary(u, t) ==
    \/ u.verification_token_created_at = NoTime
    \/ t - u.verification_token_created_at >= TOKEN_TTL_HOURS

TokenExpired(u, t) ==
    \/ u.verification_token_created_at = NoTime
    \/ t - u.verification_token_created_at > TOKEN_TTL_HOURS

SuccessfulLogin_KeepsCount(u, t) ==
    [u EXCEPT !.last_login_at = t]

SuccessfulLogin(u, t) ==
    [u EXCEPT !.failed_login_attempts = 0, !.last_login_at = t]

FailedLogin_NoLockedAt(u, t) ==
    LET n == u.failed_login_attempts + 1
    IN  IF n >= max_login_attempts
        THEN [u EXCEPT !.failed_login_attempts = n, !.is_locked = TRUE]
        ELSE [u EXCEPT !.failed_login_attempts = n]

FailedLogin_OffByOne(u, t) ==
    LET n == u.failed_login_attempts + 1
    IN  IF n > max_login_attempts
        THEN [u EXCEPT !.failed_login_attempts = n, !.is_locked = TRUE,
                       !.locked_at = t]
        ELSE [u EXCEPT !.failed_login_attempts = n]

FailedLogin(u, t) ==
    LET n == u.failed_login_attempts + 1
    IN  IF n >= max_login_attempts
        THEN [u EXCEPT !.failed_login_attempts = n, !.is_locked = TRUE,
                       !.locked_at = t]
        ELSE [u EXCEPT !.failed_login_attempts = n]

MarkVerified_KeepsRole(u) ==
    [u EXCEPT !.email_verified = TRUE, !.verification_token = NoToken,
              !.verification_token_created_at = NoTime]

MarkVerified(u) ==
    [u EXCEPT !.email_verified = TRUE, !.verification_token = NoToken,
              !.verification_token_created_at = NoTime,
              !.role = "AUTHENTICATED"]

BootstrapRole_OffByOne(user_count) ==
    IF user_count <= 1 THEN "ADMIN" ELSE "ANONYMOUS"

BootstrapRole(user_count) ==
    IF user_count = 0 THEN "ADMIN" ELSE "ANONYMOUS"

NewUser_NoTimestamp(e, p, role, tok, t) ==
    [email |-> e, hashed_password |-> hash_password(p),
     role |-> role,
     email_verified |-> (role = "ADMIN"),
     verification_token |-> IF role = "ADMIN" THEN NoToken ELSE tok,
     verification_token_created_at |-> NoTime,
     failed_login_attempts |-> 0, is_locked |-> FALSE, locked_at |-> NoTime,
     last_login_at |-> NoTime]

NewUser(e, p, role, tok, t) ==
    [email |-> e, hashed_password |-> hash_password(p),
     role |-> role,
     email_verified |-> (role = "ADMIN"),
     verification_token |-> IF role = "ADMIN" THEN NoToken ELSE tok,
     verification_token_created_at |-> IF role = "ADMIN" THEN NoTime ELSE t,
     failed_login_attempts |-> 0, is_locked |-> FALSE, locked_at |-> NoTime,
     last_login_at |-> NoTime]


(* --------------------------- service methods --------------------------- *)

create_KeepsRequestRole(us, e, p, r, id, tok, t, mail) ==
    IF ~validate_password_strength(p)
    THEN [ret |-> NoId, users |-> us, issued |-> NoToken, mailed |-> NoToken]
    ELSE IF get_by_email(us, e) # NoId
    THEN [ret |-> NoId, users |-> us, issued |-> NoToken, mailed |-> NoToken]
    ELSE LET role == IF count(us) = 0 THEN "ADMIN" ELSE r
             u    == NewUser(e, p, role, tok, t)
         IN  [ret |-> id,
              users |-> [i \in DOMAIN us \cup {id} |->
                            IF i = id THEN u ELSE us[i]],
              issued |-> u.verification_token,
              mailed |-> IF role # "ADMIN" /\ mail = "sent"
                         THEN u.verification_token ELSE NoToken]

create_NoEmailCheck(us, e, p, r, id, tok, t, mail) ==
    IF ~validate_password_strength(p)
    THEN [ret |-> NoId, users |-> us, issued |-> NoToken, mailed |-> NoToken]
    ELSE LET role == BootstrapRole(count(us))
             u    == NewUser(e, p, role, tok, t)
         IN  [ret |-> id,
              users |-> [i \in DOMAIN us \cup {id} |->
                            IF i = id THEN u ELSE us[i]],
              issued |-> u.verification_token,
              mailed |-> IF role # "ADMIN" /\ mail = "sent"
                         THEN u.verification_token ELSE NoToken]

create_FailsOnMailError(us, e, p, r, id, tok, t, mail) ==
    IF ~validate_password_strength(p)
    THEN [ret |-> NoId, users |-> us, issued |-> NoToken, mailed |-> NoToken]
    ELSE IF get_by_email(us, e) # NoId
    THEN [ret |-> NoId, users |-> us, issued |-> NoToken, mailed |-> NoToken]
    ELSE LET role == BootstrapRole(count(us))
             u    == NewUser(e, p, role, tok, t)
         IN  IF role # "ADMIN" /\ mail # "sent"
             THEN [ret |-> NoId, users |-> us, issued |-> NoToken,
                   mailed |-> NoToken]
             ELSE [ret |-> id,
                   users |-> [i \in DOMAIN us \cup {id} |->
                                 IF i = id THEN u ELSE us[i]],
                   issued |-> u.verification_token,
                   mailed |-> IF role # "ADMIN"
                              THEN u.verification_token ELSE NoToken]

\* UserService.create: r is the role of the request, which the bootstrap
\* rule overwrites; id and tok are the fresh uuid and the fresh token
create(us, e, p, r, id, tok, t, mail) ==
    IF ~validate_password_strength(p)
    THEN [ret |-> NoId, users |-> us, issued |-> NoToken, mailed |-> NoToken]
    ELSE IF get_by_email(us, e) # NoId
    THEN [ret |-> NoId, users |-> us, issued |-> NoToken, mailed |-> NoToken]
    ELSE LET role == BootstrapRole(count(us))
             u    == NewUser(e, p, role, tok, t)
         IN  [ret |-> id,
              users |-> [i \in DOMAIN us \cup {id} |->
                            IF i = id THEN u ELSE us[i]],
              issued |-> u.verification_token,
              mailed |-> IF role # "ADMIN" /\ mail = "sent"
                         THEN u.verification_token ELSE NoToken]

is_account_locked_UnlocksForNextRequest(us, e, t) ==
    LET id == get_by_email(us, e)
    IN  IF id = NoId \/ ~us[id].is_locked
        THEN [ret |-> FALSE, users |-> us]
        ELSE IF AutoUnlockDue(us[id], t)
        THEN [ret |-> TRUE,
              users |-> Commit(us, id, us[id], unlock_account(us[id]))]
        ELSE [ret |-> TRUE, users |-> us]

is_account_locked(us, e, t) ==
    LET id == get_by_email(us, e)
    IN  IF id = NoId \/ ~us[id].is_locked
        THEN [ret |-> FALSE, users |-> us]
        ELSE IF AutoUnlockDue(us[id], t)
        THEN [ret |-> FALSE,
              users |-> Commit(us, id, us[id], unlock_account(us[id]))]
        ELSE [ret |-> TRUE, users |-> us]

login_user_PasswordFirst(us, e, p, t) ==
    LET id == get_by_email(us, e)
    IN  IF id = NoId THEN [ret |-> NoId, users |-> us]
        ELSE
        LET chk == is_account_locked(us, e, t)
            u   == chk.users[id]
        IN  IF chk.ret THEN [ret |-> NoId, users |-> chk.users]
            ELSE IF ~verify_password(p, u.hashed_password)
            THEN [ret |-> NoId,
                  users |-> Commit(chk.users, id, u, FailedLogin(u, t))]
            ELSE IF ~u.email_verified THEN [ret |-> NoId, users |-> chk.users]
            ELSE [ret |-> id,
                  users |-> Commit(chk.users, id, u, SuccessfulLogin(u, t))]

login_user(us, e, p, t) ==
    LET id == get_by_email(us, e)
    IN  IF id = NoId THEN [ret |-> NoId, users |-> us]
        ELSE
        LET chk == is_account_locked(us, e, t)
            u   == chk.users[id]
        IN  IF chk.ret THEN [ret |-> NoId, users |-> chk.users]
            ELSE IF ~u.email_verified THEN [ret |-> NoId, users |-> chk.users]
            ELSE IF verify_password(p, u.hashed_password)
            THEN [ret |-> id,
                  users |-> Commit(chk.users, id, u, SuccessfulLogin(u, t))]
            ELSE [ret |-> NoId,
                  users |-> Commit(chk.users, id, u, FailedLogin(u, t))]

verify_email_with_token_ClearsExpired(us, id, tok, t) ==
    IF \/ get_by_id(us, id) = NoId
       \/ us[id].verification_token = NoToken
       \/ us[id].verification_token # tok
    THEN [ret |-> FALSE, users |-> us]
    ELSE IF TokenExpired(us[id], t)
    THEN [ret |-> FALSE,
          users |-> [us EXCEPT ![id].verification_token = NoToken,
                               ![id].verification_token_created_at = NoTime]]
    ELSE [ret |-> TRUE,
          users |-> Commit(us, id, us[id], MarkVerified(us[id]))]

verify_email_with_token(us, id, tok, t) ==
    IF \/ get_by_id(us, id) = NoId
       \/ us[id].verification_token = NoToken
       \/ us[id].verification_token # tok
    THEN [ret |-> FALSE, users |-> us]
    ELSE IF TokenExpired(us[id], t)
    THEN [ret |-> FALSE, users |-> us]
    ELSE [ret |-> TRUE,
          users |-> Commit(us, id, us[id], MarkVerified(us[id]))]

unlock_user_account(us, id) ==
    IF get_by_id(us, id) # NoId /\ us[id].is_locked
    THEN [ret |-> TRUE,
          users |-> Commit(us, id, us[id], unlock_account(us[id]))]
    ELSE [ret |-> FALSE, users |-> us]

reset_password_KeepsLock(us, id, p) ==
    IF ~validate_password_strength(p) THEN [ret |-> FALSE, users |-> us]
    ELSE IF get_by_id(us, id) # NoId
    THEN [ret |-> TRUE,
          users |-> [us EXCEPT ![id].hashed_password = hash_password(p),
                               ![id].failed_login_attempts = 0]]
    ELSE [ret |-> FALSE, users |-> us]

reset_password(us, id, p) ==
    IF ~validate_password_strength(p) THEN [ret |-> FALSE, users |-> us]
    ELSE IF get_by_id(us, id) # NoId
    THEN [ret |-> TRUE,
          users |-> Commit(us, id, us[id],
                      [unlock_account(us[id]) EXCEPT
                          !.hashed_password = hash_password(p)])]
    ELSE [ret |-> FALSE, users |-> us]

generate_new_verification_token_IgnoresVerified(us, e, tok, t) ==
    LET id == get_by_email(us, e)
    IN  IF id = NoId
        THEN [ret |-> FALSE, users |-> us]
        ELSE [ret |-> TRUE,
              users |-> Commit(us, id, us[id],
                          [us[id] EXCEPT !.verification_token = tok,
                                         !.verification_token_created_at = t])]

generate_new_verification_token_KeepsOldToken(us, e, tok, t) ==
    LET id == get_by_email(us, e)
    IN  IF id = NoId \/ us[id].email_verified
        THEN [ret |-> FALSE, users |-> us]
        ELSE [ret |-> TRUE,
              users |-> Commit(us, id, us[id],
                          [us[id] EXCEPT !.verification_token_created_at = t])]

generate_new_verification_token(us, e, tok, t) ==
    LET id == get_by_email(us, e)
    IN  IF id = NoId \/ us[id].email_verified
        THEN [ret |-> FALSE, users |-> us]
        ELSE [ret |-> TRUE,
              users |-> Commit(us, id, us[id],
                          [us[id] EXCEPT !.verification_token = tok,
                                         !.verification_token_created_at = t])]

delete(us, id) ==
    IF get_by_id(us, id) = NoId THEN [ret |-> FALSE, users |-> us]
    ELSE [ret |-> TRUE, users |-> [i \in DOMAIN us \ {id} |-> us[i]]]

(* ------------------------------- routes -------------------------------- *)

NoJwt == [sub |-> "", role |-> ""]

\* POST /register/
register(us, e, p, r, id, tok, t, mail) ==
    LET res == create(us, e, p, r, id, tok, t, mail)
    IN  [status |-> IF res.ret = NoId THEN 400 ELSE 200, user |-> res.ret,
         users |-> res.users, issued |-> res.issued, mailed |-> res.mailed]

\* the detail of the HTTPException, or the empty string of a success
AccountLockedDetail == "Account locked due to too many failed login attempts. Try again later or request account unlock."
IncorrectLoginDetail == "Incorrect email or password."
UnverifiedDetail == "Email not verified."

login_RevealsUnverified(us, e, p, t) ==
    LET chk == is_account_locked(us, e, t)
        res == login_user(chk.users, e, p, t)
        id  == get_by_email(us, e)
    IN  IF chk.ret
        THEN [status |-> 400, detail |-> AccountLockedDetail, jwt |-> NoJwt,
              users |-> chk.users]
        ELSE IF res.ret # NoId
        THEN [status |-> 200, detail |-> "",
              jwt |-> [sub |-> res.users[res.ret].email,
                       role |-> res.users[res.ret].role],
              users |-> res.users]
        ELSE IF id # NoId /\ ~us[id].email_verified
        THEN [status |-> 401, detail |-> UnverifiedDetail, jwt |-> NoJwt,
              users |-> res.users]
        ELSE [status |-> 401, detail |-> IncorrectLoginDetail, jwt |-> NoJwt,
              users |-> res.users]

\* POST /login/
login(us, e, p, t) ==
    LET chk == is_account_locked(us, e, t)
        res == login_user(chk.users, e, p, t)
    IN  IF chk.ret
        THEN [status |-> 400, detail |-> AccountLockedDetail, jwt |-> NoJwt,
              users |-> chk.users]
        ELSE IF res.ret # NoId
        THEN [status |-> 200, detail |-> "",
              jwt |-> [sub |-> res.users[res.ret].email,
                       role |-> res.users[res.ret].role],
              users |-> res.users]
        ELSE [status |-> 401, detail |-> IncorrectLoginDetail, jwt |-> NoJwt,
              users |-> res.users]

\* GET /verify-email/{user_id}/{token}
verify_email(us, id, tok, t) ==
    LET res == verify_email_with_token(us, id, tok, t)
    IN  [status |-> IF res.ret THEN 200 ELSE 400, users |-> res.users]

VerificationRequestedMessage == "If your email exists and is not verified, a new verification email has been sent"
\* the framework's answer to an exception that leaves the handler
InternalServerError == "Internal Server Error"

\* POST /request-verification-email/
request_verification_email(us, e, tok, t, mail) ==
    LET id  == get_by_email(us, e)
        res == generate_new_verification_token(us, e, tok, t)
    IN  IF id = NoId \/ us[id].email_verified
        THEN [status |-> 200, body |-> VerificationRequestedMessage,
              users |-> us, issued |-> NoToken, mailed |-> NoToken]
        ELSE IF res.ret
        THEN [status |-> IF mail = "error" THEN 500 ELSE 200,
              body |-> IF mail = "error" THEN InternalServerError
                       ELSE VerificationRequestedMessage,
              users |-> res.users, issued |-> tok,
              mailed |-> IF mail = "sent" THEN tok ELSE NoToken]
        ELSE [status |-> 200, body |-> VerificationRequestedMessage,
              users |-> res.users, issued |-> NoToken, mailed |-> NoToken]

(* ------------------------------- actions ------------------------------- *)

Idle == [pc |-> "idle", email |-> "", password |-> <<>>, id |-> NoId,
         loaded |-> <<>>, cur |-> <<>>, status |-> 0]

Init ==
    /\ users = <<>>
    /\ now = 0
    /\ ticks = 0
    /\ nextId = 1
    /\ nextToken = 1
    /\ req = [r \in 1..MaxReq |-> Idle]
    /\ auth_request_timestamps = <<>>
    /\ clock = 0
    /\ profiles = <<>>
    /\ password = <<>>
    /\ accepted = FALSE

Tick(d) ==
    /\ ticks < MaxTicks
    /\ now' = now + d
    /\ ticks' = ticks + 1
    /\ UNCHANGED <<limiter_vars, password_vars, profiles, users, nextId, nextToken, req>>

Register(e, p, r, mail) ==
    LET res == register(users, e, p, r, nextId, nextToken, now, mail)
    IN  /\ res.user # NoId => nextId <= MaxUsers
        /\ res.issued # NoToken => nextToken <= MaxTokens
        /\ users' = res.users
        /\ nextId' = IF res.user # NoId THEN nextId + 1 ELSE nextId
        /\ nextToken' = IF res.issued # NoToken THEN nextToken + 1
                        ELSE nextToken
        /\ UNCHANGED <<limiter_vars, password_vars, profiles, now, ticks, req>>

Login(e, p) ==
    /\ users' = login(users, e, p, now).users
    /\ UNCHANGED <<limiter_vars, password_vars, profiles, now, ticks, nextId, nextToken, req>>

IsAccountLocked(e) ==
    /\ users' = is_account_locked(users, e, now).users
    /\ UNCHANGED <<limiter_vars, password_vars, profiles, now, ticks, nextId, nextToken, req>>

VerifyEmail(id, tok) ==
    /\ users' = verify_email(users, id, tok, now).users
    /\ UNCHANGED <<limiter_vars, password_vars, profiles, now, ticks, nextId, nextToken, req>>

RequestVerificationEmail(e, mail) ==
    LET res == request_verification_email(users, e, nextToken, now, mail)
    IN  /\ res.issued # NoToken => nextToken <= MaxTokens
        /\ users' = res.users
        /\ nextToken' = IF res.issued # NoToken THEN nextToken + 1
                        ELSE nextToken
        /\ UNCHANGED <<limiter_vars, password_vars, profiles, now, ticks, nextId, req>>

UnlockUserAccount(id) ==
    /\ users' = unlock_user_account(users, id).users
    /\ UNCHANGED <<limiter_vars, password_vars, profiles, now, ticks, nextId, nextToken, req>>

ResetPassword(id, p) ==
    /\ users' = reset_password(users, id, p).users
    /\ UNCHANGED <<limiter_vars, password_vars, profiles, now, ticks, nextId, nextToken, req>>

Delete(id) ==
    /\ users' = delete(users, id).users
    /\ UNCHANGED <<limiter_vars, password_vars, profiles, now, ticks, nextId, nextToken, req>>

Next ==
    \/ \E d \in TimeSteps : Tick(d)
    \/ \E e \in Emails, p \in RegisterPasswords, r \in RequestRoles,
          mail \in MailOutcomes : Register(e, p, r, mail)
    \/ \E e \in Emails, p \in LoginPasswords : Login(e, p)
    \/ \E e \in Emails : IsAccountLocked(e)
    \/ \E id \in 1..MaxUsers, tok \in 1..MaxTokens : VerifyEmail(id, tok)
    \/ \E e \in Emails, mail \in MailOutcomes :
          RequestVerificationEmail(e, mail)
    \/ \E id \in 1..MaxUsers : UnlockUserAccount(id)
    \/ \E id \in 1..MaxUsers, p \in ResetPasswords : ResetPassword(id, p)
    \/ \E id \in 1..MaxUsers : Delete(id)

Spec == Init /\ [][Next]_vars

(* ------------------- concurrent /login/ requests ----------------------- *)
(* Each request runs in its own session.  A request's reads and its       *)
(* commits are separate steps; between them other requests may commit.    *)
(* The session keeps the row it loaded (loaded) and the object as the     *)
(* handler has changed it (cur).                                           *)

SetReq(r, rec) == req' = [req EXCEPT ![r] = rec]

Done(r, status) == [req[r] EXCEPT !.pc = "done", !.status = status]

\* the handler from the password check on: verified test, verify_password
\* and the changes to the object, up to the commit it then awaits
AfterLockCheck(r, loaded, cur) ==
    IF ~cur.email_verified THEN Done(r, 401)
    ELSE IF verify_password(req[r].password, cur.hashed_password)
    THEN [req[r] EXCEPT !.pc = "commit_ok", !.loaded = loaded,
                        !.cur = SuccessfulLogin(cur, now)]
    ELSE [req[r] EXCEPT !.pc = "commit_failed", !.loaded = loaded,
                        !.cur = FailedLogin(cur, now)]

StartLogin(r, e, p) ==
    /\ req[r].pc = "idle"
    /\ SetReq(r, [Idle EXCEPT !.pc = "route_check", !.email = e,
                              !.password = p])
    /\ UNCHANGED <<limiter_vars, password_vars, profiles, users, now, ticks, nextId, nextToken>>

\* the route's is_account_locked: the lookup and the lock test
RouteCheck(r) ==
    LET id == get_by_email(users, req[r].email)
    IN  /\ req[r].pc = "route_check"
        /\ IF id = NoId \/ ~users[id].is_locked
           THEN SetReq(r, [req[r] EXCEPT !.pc = "fetch"])
           ELSE IF AutoUnlockDue(users[id], now)
           THEN SetReq(r, [req[r] EXCEPT !.pc = "route_unlock", !.id = id,
                                         !.loaded = users[id],
                                         !.cur = unlock_account(users[id])])
           ELSE SetReq(r, Done(r, 400))
        /\ UNCHANGED <<limiter_vars, password_vars, profiles, users, now, ticks, nextId, nextToken>>

\* the commit of the route's auto-unlock
RouteUnlock(r) ==
    /\ req[r].pc = "route_unlock"
    /\ users' = Commit(users, req[r].id, req[r].loaded, req[r].cur)
    /\ SetReq(r, [req[r] EXCEPT !.pc = "fetch", !.id = NoId,
                                !.loaded = <<>>, !.cur = <<>>])
    /\ UNCHANGED <<limiter_vars, password_vars, profiles, now, ticks, nextId, nextToken>>

\* login_user: user = get_by_email(session, email)
Fetch(r) ==
    LET id == get_by_email(users, req[r].email)
    IN  /\ req[r].pc = "fetch"
        /\ IF id = NoId THEN SetReq(r, Done(r, 401))
           ELSE SetReq(r, [req[r] EXCEPT !.pc = "inner_check", !.id = id,
                                         !.loaded = users[id],
                                         !.cur = users[id]])
        /\ UNCHANGED <<limiter_vars, password_vars, profiles, users, now, ticks, nextId, nextToken>>

\* login_user's is_account_locked: its lookup answers the object the session
\* already holds, so the lock test reads the row as Fetch loaded it
InnerCheck(r) ==
    LET cur == req[r].cur
    IN  /\ req[r].pc = "inner_check"
        /\ IF ~cur.is_locked
           THEN SetReq(r, AfterLockCheck(r, req[r].loaded, cur))
           ELSE IF AutoUnlockDue(cur, now)
           THEN SetReq(r, [req[r] EXCEPT !.pc = "inner_unlock",
                                         !.cur = unlock_account(cur)])
           ELSE SetReq(r, Done(r, 401))
        /\ UNCHANGED <<limiter_vars, password_vars, profiles, users, now, ticks, nextId, nextToken>>

\* the commit of login_user's auto-unlock, then on to the password check
InnerUnlock(r) ==
    /\ req[r].pc = "inner_unlock"
    /\ users' = Commit(users, req[r].id, req[r].loaded, req[r].cur)
    /\ SetReq(r, AfterLockCheck(r, req[r].cur, req[r].cur))
    /\ UNCHANGED <<limiter_vars, password_vars, profiles, now, ticks, nextId, nextToken>>

\* the commit of a successful login; the route then issues the token
CommitOk(r) ==
    /\ req[r].pc = "commit_ok"
    /\ users' = Commit(users, req[r].id, req[r].loaded, req[r].cur)
    /\ SetReq(r, Done(r, 200))
    /\ UNCHANGED <<limiter_vars, password_vars, profiles, now, ticks, nextId, nextToken>>

\* the commit of a failed login; the route then answers 401
CommitFailed(r) ==
    /\ req[r].pc = "commit_failed"
    /\ users' = Commit(users, req[r].id, req[r].loaded, req[r].cur)
    /\ SetReq(r, Done(r, 401))
    /\ UNCHANGED <<limiter_vars, password_vars, profiles, now, ticks, nextId, nextToken>>

\* the response is sent and the session closed
Respond(r) ==
    /\ req[r].pc = "done"
    /\ SetReq(r, Idle)
    /\ UNCHANGED <<limiter_vars, password_vars, profiles, users, now, ticks, nextId, nextToken>>

\* the store after the first registration, with no request in flight
InitConc ==
    /\ users = register(<<>>, "a@x.io", StrongA, "ADMIN", 1, 1, 0, "sent").users
    /\ now = 0
    /\ ticks = 0
    /\ nextId = 2
    /\ nextToken = 1
    /\ req = [r \in 1..MaxReq |-> Idle]
    /\ auth_request_timestamps = <<>>
    /\ clock = 0
    /\ profiles = <<>>
    /\ password = <<>>
    /\ accepted = FALSE

NextConc ==
    \/ Tick(1)
    \/ \E r \in 1..MaxReq, e \in Emails, p \in LoginPasswords :
          StartLogin(r, e, p)
    \/ \E r \in 1..MaxReq : RouteCheck(r)
    \/ \E r \in 1..MaxReq : RouteUnlock(r)
    \/ \E r \in 1..MaxReq : Fetch(r)
    \/ \E r \in 1..MaxReq : InnerCheck(r)
    \/ \E r \in 1..MaxReq : InnerUnlock(r)
    \/ \E r \in 1..MaxReq : CommitOk(r)
    \/ \E r \in 1..MaxReq : CommitFailed(r)
    \/ \E r \in 1..MaxReq : Respond(r)

SpecConc == InitConc /\ [][NextConc]_vars

(* ------------- concurrent register and verification requests ----------- *)
(* As above, each request runs in its own session and its reads and its    *)
(* commit are separate steps.                                               *)

InFlightRegisters ==
    Cardinality({r \in 1..MaxReq : req[r].pc \in {"reg_count", "reg_insert"}})

\* create up to the e-mail lookup: strength check, then get_by_email
RegCheck(r, e, p) ==
    /\ req[r].pc = "idle"
    /\ nextId + InFlightRegisters <= MaxUsers
    /\ IF ~validate_password_strength(p) \/ get_by_email(users, e) # NoId
       THEN SetReq(r, Done(r, 400))
       ELSE SetReq(r, [Idle EXCEPT !.pc = "reg_count", !.email = e,
                                   !.password = p])
    /\ UNCHANGED <<limiter_vars, password_vars, profiles, users, now, ticks, nextId, nextToken>>

\* create from the count to the commit it awaits: the role by the count
\* read now, and the token of a non-ADMIN account
RegCount(r) ==
    LET role == BootstrapRole(count(users))
        u    == NewUser(req[r].email, req[r].password, role, nextToken, now)
    IN  /\ req[r].pc = "reg_count"
        /\ role # "ADMIN" => nextToken <= MaxTokens
        /\ SetReq(r, [req[r] EXCEPT !.pc = "reg_insert", !.cur = u])
        /\ nextToken' = IF role # "ADMIN" THEN nextToken + 1 ELSE nextToken
        /\ UNCHANGED <<limiter_vars, password_vars, profiles, users, now, ticks, nextId>>

\* session.add(new_user); session.commit(): the INSERT under a fresh uuid
RegInsert(r) ==
    /\ req[r].pc = "reg_insert"
    /\ users' = [i \in DOMAIN users \cup {nextId} |->
                    IF i = nextId THEN req[r].cur ELSE users[i]]
    /\ nextId' = nextId + 1
    /\ SetReq(r, [Done(r, 200) EXCEPT !.id = nextId])
    /\ UNCHANGED <<limiter_vars, password_vars, profiles, now, ticks, nextToken>>

\* verify_email_with_token up to the commit it awaits
VerifyRead(r, id, tok) ==
    /\ req[r].pc = "idle"
    /\ IF \/ get_by_id(users, id) = NoId
          \/ users[id].verification_token = NoToken
          \/ users[id].verification_token # tok
          \/ TokenExpired(users[id], now)
       THEN SetReq(r, [Done(r, 400) EXCEPT !.id = id])
       ELSE SetReq(r, [Idle EXCEPT !.pc = "verify_commit", !.id = id,
                                   !.loaded = users[id],
                                   !.cur = MarkVerified(users[id])])
    /\ UNCHANGED <<limiter_vars, password_vars, profiles, users, now, ticks, nextId, nextToken>>

VerifyCommit(r) ==
    /\ req[r].pc = "verify_commit"
    /\ users' = Commit(users, req[r].id, req[r].loaded, req[r].cur)
    /\ SetReq(r, Done(r, 200))
    /\ UNCHANGED <<limiter_vars, password_vars, profiles, now, ticks, nextId, nextToken>>

\* generate_new_verification_token up to the commit it awaits
TokenRead(r, e) ==
    LET id == get_by_email(users, e)
    IN  /\ req[r].pc = "idle"
        /\ IF id = NoId \/ users[id].email_verified
           THEN /\ SetReq(r, [Done(r, 200) EXCEPT !.email = e])
                /\ UNCHANGED nextToken
           ELSE /\ nextToken <= MaxTokens
                /\ SetReq(r, [Idle EXCEPT
                      !.pc = "token_commit", !.email = e, !.id = id,
                      !.loaded = users[id],
                      !.cur = [users[id] EXCEPT
                                 !.verification_token = nextToken,
                                 !.verification_token_created_at = now]])
                /\ nextToken' = nextToken + 1
        /\ UNCHANGED <<limiter_vars, password_vars, profiles, users, now, ticks, nextId>>

TokenCommit(r) ==
    /\ req[r].pc = "token_commit"
    /\ users' = Commit(users, req[r].id, req[r].loaded, req[r].cur)
    /\ SetReq(r, Done(r, 200))
    /\ UNCHANGED <<limiter_vars, password_vars, profiles, now, ticks, nextId, nextToken>>

NextOnboard ==
    \/ \E r \in 1..MaxReq, e \in Emails, p \in RegisterPasswords :
          RegCheck(r, e, p)
    \/ \E r \in 1..MaxReq : RegCount(r)
    \/ \E r \in 1..MaxReq : RegInsert(r)
    \/ \E r \in 1..MaxReq, id \in 1..MaxUsers, tok \in 1..MaxTokens :
          VerifyRead(r, id, tok)
    \/ \E r \in 1..MaxReq : VerifyCommit(r)
    \/ \E r \in 1..MaxReq, e \in Emails : TokenRead(r, e)
    \/ \E r \in 1..MaxReq : TokenCommit(r)
    \/ \E r \in 1..MaxReq : Respond(r)

SpecOnboard == Init /\ [][NextOnboard]_vars

(* ---------------------------- rate limiter ----------------------------- *)

MAX_REQUESTS_PER_MINUTE == 5
RATE_LIMIT_WINDOW == 60
MAX_DELAY == 30

\* request.client.host, or "unknown" without a client address
ClientKeys == {"10.0.0.1", "unknown"}
ClockSteps == {30, 60}

Min(a, b) == IF a <= b THEN a ELSE b

RECURSIVE Pow2(_)
Pow2(n) == IF n = 0 THEN 1 ELSE 2 * Pow2(n - 1)

\* the list of a key, created empty on the key's first request
Timestamps(ts, client_ip) ==
    IF client_ip \in DOMAIN ts THEN ts[client_ip] ELSE <<>>

InWindow_Inclusive(t, x) == t - x <= RATE_LIMIT_WINDOW

InWindow(t, x) == t - x < RATE_LIMIT_WINDOW

Backoff_NoCap(request_count) ==
    IF request_count >= MAX_REQUESTS_PER_MINUTE
    THEN Pow2(request_count - MAX_REQUESTS_PER_MINUTE)
    ELSE 0

Backoff(request_count) ==
    IF request_count >= MAX_REQUESTS_PER_MINUTE
    THEN Min(Pow2(request_count - MAX_REQUESTS_PER_MINUTE), MAX_DELAY)
    ELSE 0

check_rate_limit_OneWindow(ts, client_ip, t) ==
    LET kept     == SelectSeq(Timestamps(ts, client_ip),
                              LAMBDA x : InWindow(t, x))
        all      == SelectSeq(Timestamps(ts, "10.0.0.1")
                                 \o Timestamps(ts, "unknown"),
                              LAMBDA x : InWindow(t, x))
        recorded == Append(kept, t)
    IN  [delay |-> Backoff(Len(all)),
         timestamps |-> [c \in DOMAIN ts \cup {client_ip} |->
                            IF c = client_ip THEN recorded ELSE ts[c]]]

check_rate_limit_DropsThrottled(ts, client_ip, t) ==
    LET kept          == SelectSeq(Timestamps(ts, client_ip),
                                   LAMBDA x : InWindow(t, x))
        request_count == Len(kept)
        recorded      == IF Backoff(request_count) > 0 THEN kept
                         ELSE Append(kept, t)
    IN  [delay |-> Backoff(request_count),
         timestamps |-> [c \in DOMAIN ts \cup {client_ip} |->
                            IF c = client_ip THEN recorded ELSE ts[c]]]

check_rate_limit_CountsThisCall(ts, client_ip, t) ==
    LET kept     == SelectSeq(Timestamps(ts, client_ip),
                              LAMBDA x : InWindow(t, x))
        recorded == Append(kept, t)
    IN  [delay |-> Backoff(Len(recorded)),
         timestamps |-> [c \in DOMAIN ts \cup {client_ip} |->
                            IF c = client_ip THEN recorded ELSE ts[c]]]

\* check_rate_limit: prune, count, record this request, then the delay by
\* the count taken before recording
check_rate_limit(ts, client_ip, t) ==
    LET kept          == SelectSeq(Timestamps(ts, client_ip),
                                   LAMBDA x : InWindow(t, x))
        request_count == Len(kept)
        recorded      == Append(kept, t)
    IN  [delay |-> Backoff(request_count),
         timestamps |-> [c \in DOMAIN ts \cup {client_ip} |->
                            IF c = client_ip THEN recorded ELSE ts[c]]]

\* the limiter call at the head of POST /register/ and of POST /login/
register_rate_limit(ts, client_ip, t) == check_rate_limit(ts, client_ip, t)
login_rate_limit(ts, client_ip, t) == check_rate_limit(ts, client_ip, t)

verify_email_rate_limit_OwnWindow(ts, client_ip, t) ==
    [delay |-> check_rate_limit(<<>>, client_ip, t).delay,
     timestamps |-> [c \in DOMAIN ts \cup {client_ip} |-> Timestamps(ts, c)]]

\* the limiter call at the head of GET /verify-email/{user_id}/{token} and
\* of POST /request-verification-email/
verify_email_rate_limit(ts, client_ip, t) ==
    check_rate_limit(ts, client_ip, t)
request_verification_email_rate_limit(ts, client_ip, t) ==
    check_rate_limit(ts, client_ip, t)

Endpoints == {"register", "login", "verify_email",
              "request_verification_email"}

\* the limiter call of a request to endpoint
rate_limit(endpoint, ts, client_ip, t) ==
    CASE endpoint = "register" -> register_rate_limit(ts, client_ip, t)
      [] endpoint = "login" -> login_rate_limit(ts, client_ip, t)
      [] endpoint = "verify_email" ->
            verify_email_rate_limit(ts, client_ip, t)
      [] endpoint = "request_verification_email" ->
            request_verification_email_rate_limit(ts, client_ip, t)

\* a request of a rate-limited route arrives from client_ip
CheckRateLimit(client_ip) ==
    /\ Len(SelectSeq(Timestamps(auth_request_timestamps, client_ip),
                     LAMBDA x : InWindow(clock, x))) < MaxRequests
    /\ auth_request_timestamps' =
          check_rate_limit(auth_request_timestamps, client_ip,
                           clock).timestamps
    /\ UNCHANGED <<account_vars, password_vars, clock, profiles>>

Advance(d) ==
    /\ clock + d <= MaxClock
    /\ clock' = clock + d
    /\ UNCHANGED <<account_vars, password_vars, auth_request_timestamps, profiles>>

NextRate ==
    \/ \E client_ip \in ClientKeys : CheckRateLimit(client_ip)
    \/ \E d \in ClockSteps : Advance(d)

SpecRate == Init /\ [][NextRate]_vars

(* -------------------- register with the nickname loop ------------------ *)
(* A nickname is named after the account that holds it: nickname i is the  *)
(* nickname of account i, and FreshNickname stands for any nickname that   *)
(* no account holds.                                                        *)

NickEmails == Emails \cup {"c@x.io"}
FreshNickname == NoId

get_by_nickname(us, nickname) ==
    IF nickname \in DOMAIN us THEN nickname ELSE NoId

\* what generate_nickname() may return: a nickname some account holds, or
\* one that no account holds
NicknameDraws(us) == DOMAIN us \cup {FreshNickname}

InFlightNick ==
    Cardinality({r \in 1..MaxReq :
                    req[r].pc \in {"nickname", "reg_count", "reg_insert"}})

\* create up to the first draw: strength check, e-mail lookup, and
\* new_nickname = generate_nickname()
NickStart(r, e, p, n) ==
    /\ req[r].pc = "idle"
    /\ nextId + InFlightNick <= MaxRegistrations
    /\ IF ~validate_password_strength(p) \/ get_by_email(users, e) # NoId
       THEN SetReq(r, Done(r, 400))
       ELSE SetReq(r, [Idle EXCEPT !.pc = "nickname", !.email = e,
                                   !.password = p,
                                   !.cur = [nickname |-> n]])
    /\ UNCHANGED <<limiter_vars, password_vars, profiles, users, now, ticks, nextId,
                   nextToken>>

\* one turn of the loop: get_by_nickname finds an account, draw again
NickRetry(r, n) ==
    /\ req[r].pc = "nickname"
    /\ get_by_nickname(users, req[r].cur.nickname) # NoId
    /\ SetReq(r, [req[r] EXCEPT !.cur = [nickname |-> n]])
    /\ UNCHANGED <<limiter_vars, password_vars, profiles, users, now, ticks, nextId,
                   nextToken>>

\* the loop ends: get_by_nickname finds no account
NickAccept(r) ==
    /\ req[r].pc = "nickname"
    /\ get_by_nickname(users, req[r].cur.nickname) = NoId
    /\ SetReq(r, [req[r] EXCEPT !.pc = "reg_count"])
    /\ UNCHANGED <<limiter_vars, password_vars, profiles, users, now, ticks, nextId,
                   nextToken>>

\* the next step of request r's handler, which the event loop runs
RegisterStep(r) ==
    \/ \E n \in NicknameDraws(users) : NickRetry(r, n)
    \/ NickAccept(r)
    \/ RegCount(r)
    \/ RegInsert(r)
    \/ Respond(r)

NextNick ==
    \/ \E r \in 1..MaxReq, e \in NickEmails, p \in RegisterPasswords,
          n \in NicknameDraws(users) : NickStart(r, e, p, n)
    \/ \E r \in 1..MaxReq, n \in NicknameDraws(users) : NickRetry(r, n)
    \/ \E r \in 1..MaxReq : NickAccept(r)
    \/ \E r \in 1..MaxReq : RegCount(r)
    \/ \E r \in 1..MaxReq : RegInsert(r)
    \/ \E r \in 1..MaxReq : Respond(r)

\* every handler that can take a step eventually takes one
SpecNick ==
    /\ Init
    /\ [][NextNick]_vars
    /\ \A r \in 1..MaxReq : WF_vars(RegisterStep(r))

(* ---------------------------- profile update --------------------------- *)
(* profiles holds the profile columns and updated_at of the accounts, by   *)
(* account id; the specifications above do not touch these columns.        *)

\* Python's None
Null == "<None>"
ProfileFields == {"first_name", "last_name", "bio", "linkedin_profile_url",
                  "github_profile_url"}
ProfileValues == {"A"}

\* a ProfileUpdate body: the fields the request sets, each to a value or null
ProfileRequests ==
    UNION {[S -> ProfileValues \cup {Null}] : S \in SUBSET ProfileFields}

\* the columns of a new row: no profile data, updated_at by server default
NewProfile(t) ==
    [f \in ProfileFields \cup {"updated_at"} |->
        IF f = "updated_at" THEN t ELSE Null]

get_user_profile(ps, user_id) ==
    IF user_id \in DOMAIN ps THEN user_id ELSE NoId

\* update_user_profile: setattr for every field the request sets, then the
\* updated_at stamp and the commit
update_user_profile(ps, user_id, profile_data, t) ==
    IF get_user_profile(ps, user_id) = NoId
    THEN [ret |-> NoId, profiles |-> ps]
    ELSE [ret |-> user_id,
          profiles |->
            [ps EXCEPT ![user_id] =
                [f \in DOMAIN ps[user_id] |->
                    IF f \in DOMAIN profile_data THEN profile_data[f]
                    ELSE IF f = "updated_at" THEN t
                    ELSE ps[user_id][f]]]]

\* PUT /profile
update_profile(ps, user_id, profile_data, t) ==
    LET res == update_user_profile(ps, user_id, profile_data, t)
    IN  [status |-> IF res.ret = NoId THEN 404 ELSE 200,
         profiles |-> res.profiles]

UpdateProfile(user_id, profile_data) ==
    /\ profiles' = update_profile(profiles, user_id, profile_data,
                                  now).profiles
    /\ UNCHANGED <<account_vars, limiter_vars, password_vars>>

\* two registered accounts with their new rows
InitProfile ==
    /\ users = register(register(<<>>, "a@x.io", StrongA, "ADMIN", 1, 1, 0,
                                 "sent").users,
                        "b@x.io", StrongA, "ANONYMOUS", 2, 1, 0,
                        "sent").users
    /\ now = 0
    /\ ticks = 0
    /\ nextId = 3
    /\ nextToken = 2
    /\ req = [r \in 1..MaxReq |-> Idle]
    /\ auth_request_timestamps = <<>>
    /\ clock = 0
    /\ profiles = [i \in {1, 2} |-> NewProfile(0)]
    /\ password = <<>>
    /\ accepted = FALSE

NextProfile ==
    \/ Tick(1)
    \/ \E user_id \in 1..MaxUsers, profile_data \in ProfileRequests :
          UpdateProfile(user_id, profile_data)

SpecProfile == InitProfile /\ [][NextProfile]_vars

(* -------------------------- password validator ------------------------ *)
(* Passwords over one character of each class the validator tests and one  *)
(* of none of them, validated as they grow.                                *)

PasswordAlphabet == {"P", "a", "1", "@", " "}

ValidatePassword(c) ==
    /\ Len(password) < MaxPasswordLen
    /\ password' = Append(password, c)
    /\ accepted' = validate_password_strength(password')
    /\ UNCHANGED <<account_vars, limiter_vars, profiles>>

NextPassword == \E c \in PasswordAlphabet : ValidatePassword(c)

SpecPassword == Init /\ [][NextPassword]_vars

(* --------------------------- storage failures -------------------------- *)
(* The lock-status check when a statement of its session fails.  A failed  *)
(* commit leaves the stored row as it was, and the statements that follow  *)
(* in the request see the stored row.                                      *)

\* ok; the SELECT fails with an SQLAlchemyError; the SELECT fails with
\* another exception; the COMMIT of the auto-unlock fails
StorageOutcomes == {"ok", "lookup_error", "lookup_raises", "commit_error"}
StorageFailures == StorageOutcomes \ {"ok"}

\* _fetch_user: an SQLAlchemyError is logged and answered with None
fetch_user(us, e, storage) ==
    IF storage = "lookup_error" THEN NoId ELSE get_by_email(us, e)

is_account_locked_failing_NarrowExcept(us, e, t, storage) ==
    IF storage = "lookup_raises"
    THEN [ret |-> FALSE, raised |-> TRUE, users |-> us]
    ELSE
    LET id == fetch_user(us, e, storage)
    IN  IF id = NoId \/ ~us[id].is_locked
        THEN [ret |-> FALSE, raised |-> FALSE, users |-> us]
        ELSE IF AutoUnlockDue(us[id], t)
        THEN IF storage = "commit_error"
             THEN [ret |-> FALSE, raised |-> TRUE, users |-> us]
             ELSE [ret |-> FALSE, raised |-> FALSE,
                   users |-> Commit(us, id, us[id], unlock_account(us[id]))]
        ELSE [ret |-> TRUE, raised |-> FALSE, users |-> us]

\* is_account_locked with its try / except Exception: return False
is_account_locked_failing(us, e, t, storage) ==
    IF storage = "lookup_raises"
    THEN [ret |-> FALSE, raised |-> FALSE, users |-> us]
    ELSE
    LET id == fetch_user(us, e, storage)
    IN  IF id = NoId \/ ~us[id].is_locked
        THEN [ret |-> FALSE, raised |-> FALSE, users |-> us]
        ELSE IF AutoUnlockDue(us[id], t)
        THEN IF storage = "commit_error"
             THEN [ret |-> FALSE, raised |-> FALSE, users |-> us]
             ELSE [ret |-> FALSE, raised |-> FALSE,
                   users |-> Commit(us, id, us[id], unlock_account(us[id]))]
        ELSE [ret |-> TRUE, raised |-> FALSE, users |-> us]

\* login_user when its lock-status check runs under the outcome storage
login_user_failing(us, e, p, t, storage) ==
    LET id == get_by_email(us, e)
    IN  IF id = NoId THEN [ret |-> NoId, users |-> us]
        ELSE
        LET chk == is_account_locked_failing(us, e, t, storage)
            u   == chk.users[id]
        IN  IF chk.raised THEN [ret |-> NoId, users |-> chk.users]
            ELSE IF chk.ret THEN [ret |-> NoId, users |-> chk.users]
            ELSE IF ~u.email_verified THEN [ret |-> NoId, users |-> chk.users]
            ELSE IF verify_password(p, u.hashed_password)
            THEN [ret |-> id,
                  users |-> Commit(chk.users, id, u, SuccessfulLogin(u, t))]
            ELSE [ret |-> NoId,
                  users |-> Commit(chk.users, id, u, FailedLogin(u, t))]

\* POST /login/ when the route's lock-status check runs under the outcome
\* outer and login_user's under the outcome inner
login_failing(us, e, p, t, outer, inner) ==
    LET chk == is_account_locked_failing(us, e, t, outer)
        res == login_user_failing(chk.users, e, p, t, inner)
    IN  IF chk.raised
        THEN [status |-> 500, detail |-> InternalServerError, jwt |-> NoJwt,
              users |-> chk.users]
        ELSE IF chk.ret
        THEN [status |-> 400, detail |-> AccountLockedDetail, jwt |-> NoJwt,
              users |-> chk.users]
        ELSE IF res.ret # NoId
        THEN [status |-> 200, detail |-> "",
              jwt |-> [sub |-> res.users[res.ret].email,
                       role |-> res.users[res.ret].role],
              users |-> res.users]
        ELSE [status |-> 401, detail |-> IncorrectLoginDetail, jwt |-> NoJwt,
              users |-> res.users]

IsAccountLockedFailing(e, storage) ==
    /\ users' = is_account_locked_failing(users, e, now, storage).users
    /\ UNCHANGED <<limiter_vars, password_vars, profiles, now, ticks, nextId, nextToken, req>>

LoginFailing(e, p, outer, inner) ==
    LET res == login_failing(users, e, p, now, outer, inner)
    IN  /\ \A id \in DOMAIN res.users :
              res.users[id].failed_login_attempts <= MaxFailedAttempts
        /\ users' = res.users
        /\ UNCHANGED <<limiter_vars, password_vars, profiles, now, ticks, nextId, nextToken, req>>

NextStorage ==
    \/ \E d \in TimeSteps : Tick(d)
    \/ \E e \in Emails, p \in RegisterPasswords, r \in RequestRoles :
          Register(e, p, r, "sent")
    \/ \E id \in 1..MaxUsers, tok \in 1..MaxTokens : VerifyEmail(id, tok)
    \/ \E e \in Emails, storage \in StorageFailures :
          IsAccountLockedFailing(e, storage)
    \/ \E e \in Emails, p \in LoginPasswords,
          outer \in StorageOutcomes, inner \in {"ok", "lookup_error"} :
          LoginFailing(e, p, outer, inner)

SpecStorage == Init /\ [][NextStorage]_vars

(* ------------------------------- claims -------------------------------- *)

Account(e) == get_by_email(users, e)
CorrectPassword(u) == u.hashed_password.digest

RECURSIVE LoginAttempts(_, _, _, _, _)
LoginAttempts(us, e, p, t, k) ==
    IF k = 0 THEN us
    ELSE LoginAttempts(login(us, e, p, t).users, e, p, t, k - 1)

\* C1: on a verified, unlocked account with no failed attempts, 5 consecutive
\* /login/ attempts with a wrong password leave the account locked with
\* locked_at set, and a following login with the correct password within the
\* hour is answered 400 (locked) without a token.
C1_LockoutAfterFiveFailures ==
    \A e \in Emails, w \in Passwords :
        LET id == Account(e)
        IN  ( /\ id # NoId
              /\ users[id].email_verified
              /\ ~users[id].is_locked
              /\ users[id].failed_login_attempts = 0
              /\ w # CorrectPassword(users[id]) )
            =>
            LET us5 == LoginAttempts(users, e, w, now, 5)
            IN  /\ us5[id].is_locked
                /\ us5[id].locked_at # NoTime
                /\ \A d \in {0, 1} :
                      LET r == login(us5, e, CorrectPassword(users[id]),
                                     now + d)
                      IN  r.status = 400 /\ r.jwt = NoJwt

C1_Witness ==
    \E e \in Emails :
        LET id == Account(e)
        IN  /\ id # NoId
            /\ users[id].is_locked
            /\ users[id].failed_login_attempts = 5
            /\ now - users[id].locked_at = 1
            /\ login(users, e, CorrectPassword(users[id]), now).status = 400

\* C2: under any interleaving of concurrent requests, no /login/ request
\* completes with a token (login_user returning the account) while the
\* stored account is locked with locked_at at most 1 hour old.
C2_NoTokenWhileLocked ==
    [][\A r \in 1..MaxReq :
          (req[r].pc # "done" /\ req'[r].pc = "done" /\ req'[r].status = 200)
          => ~( /\ users'[req'[r].id].is_locked
                /\ now' - users'[req'[r].id].locked_at <= 1 )]_vars

\* C3: is_account_locked on a locked account answers false and clears
\* is_locked, failed_login_attempts and locked_at exactly when
\* now - locked_at > 1 hour; otherwise it answers true and changes nothing;
\* on an unlocked account or an unknown email it answers false and changes
\* nothing.
C3_LazyAutoUnlock ==
    \A e \in Emails :
        LET id  == Account(e)
            res == is_account_locked(users, e, now)
        IN  IF id # NoId /\ users[id].is_locked
            THEN IF now - users[id].locked_at > 1
                 THEN /\ res.ret = FALSE
                      /\ res.users =
                           [users EXCEPT ![id].is_locked = FALSE,
                                         ![id].failed_login_attempts = 0,
                                         ![id].locked_at = NoTime]
                 ELSE res.ret = TRUE /\ res.users = users
            ELSE res.ret = FALSE /\ res.users = users

C3_Witness ==
    \E e \in Emails :
        LET id == Account(e)
        IN  /\ id # NoId
            /\ users[id].is_locked
            /\ now - users[id].locked_at = 2
            /\ is_account_locked(users, e, now).ret = FALSE
            /\ ~is_account_locked(users, e, now).users[id].is_locked

\* C4: login on an existing, unlocked, verified account: a wrong password
\* adds exactly 1 to failed_login_attempts (locking the account with
\* locked_at = now when the count reaches 5) and is rejected; the correct
\* password sets failed_login_attempts to 0, stamps last_login_at and
\* returns the account.
C4_LoginCountsAndResets ==
    \A e \in Emails, p \in Passwords :
        LET id == Account(e)
        IN  (id # NoId /\ users[id].email_verified /\ ~users[id].is_locked)
            =>
            LET u   == users[id]
                res == login_user(users, e, p, now)
                n   == u.failed_login_attempts + 1
            IN  /\ \A j \in DOMAIN users \ {id} : res.users[j] = users[j]
                /\ IF p = CorrectPassword(u)
                   THEN /\ res.ret = id
                        /\ res.users[id] =
                             [u EXCEPT !.failed_login_attempts = 0,
                                       !.last_login_at = now]
                        /\ login(users, e, p, now).status = 200
                   ELSE /\ res.ret = NoId
                        /\ res.users[id] =
                             IF n >= 5
                             THEN [u EXCEPT !.failed_login_attempts = n,
                                            !.is_locked = TRUE,
                                            !.locked_at = now]
                             ELSE [u EXCEPT !.failed_login_attempts = n]
                        /\ login(users, e, p, now).status = 401

C4_Witness ==
    \E id \in DOMAIN users :
        /\ users[id].email_verified
        /\ ~users[id].is_locked
        /\ users[id].failed_login_attempts = 4
        /\ users[id].last_login_at # NoTime
        /\ users[id].last_login_at < now

\* C5: a login for an absent email, for an account locked within the last
\* hour, or for an unverified account is rejected whatever the password and
\* leaves failed_login_attempts, is_locked, locked_at and last_login_at as
\* they were.
C5_EarlyRejectionsChangeNothing ==
    \A e \in Emails, p \in Passwords :
        LET id  == Account(e)
            res == login_user(users, e, p, now)
            rt  == login(users, e, p, now)
        IN  ( \/ id = NoId
              \/ users[id].is_locked /\ now - users[id].locked_at <= 1
              \/ ~users[id].email_verified )
            =>
            /\ res.ret = NoId
            /\ rt.status # 200 /\ rt.jwt = NoJwt
            /\ DOMAIN res.users = DOMAIN users
            /\ DOMAIN rt.users = DOMAIN users
            /\ \A j \in DOMAIN users : \A v \in {res.users[j], rt.users[j]} :
                  /\ v.failed_login_attempts = users[j].failed_login_attempts
                  /\ v.is_locked = users[j].is_locked
                  /\ v.locked_at = users[j].locked_at
                  /\ v.last_login_at = users[j].last_login_at

C5_Witness ==
    \E e \in Emails, f \in Emails :
        LET id == Account(e)
            jd == Account(f)
        IN  /\ id # NoId /\ jd # NoId
            /\ ~users[id].email_verified
            /\ login_user(users, e, CorrectPassword(users[id]), now).ret = NoId
            /\ users[jd].is_locked /\ now - users[jd].locked_at <= 1
            /\ login_user(users, f, CorrectPassword(users[jd]), now).ret = NoId

\* C6: verify_email_with_token(id, token) accepts iff the account exists, its
\* stored token is non-null and equal to the presented token, and its
\* creation timestamp is set and not more than 48 hours old.
C6_TokenAcceptedIffFresh ==
    \A id \in 1..MaxUsers, tok \in 1..MaxTokens :
        verify_email_with_token(users, id, tok, now).ret
        <=>
        ( /\ id \in DOMAIN users
          /\ users[id].verification_token # NoToken
          /\ users[id].verification_token = tok
          /\ users[id].verification_token_created_at # NoTime
          /\ now - users[id].verification_token_created_at <= 48 )

C6_Witness ==
    \E id \in DOMAIN users :
        /\ users[id].verification_token # NoToken
        /\ now - users[id].verification_token_created_at = 49
        /\ ~verify_email_with_token(users, id, users[id].verification_token,
                                    now).ret

\* C7: when verify_email_with_token accepts, the account has
\* email_verified = true, no token and no token timestamp, an ANONYMOUS
\* account has become AUTHENTICATED, and the lock state and the failure
\* counter are as before.
C7_AcceptedVerificationEffect ==
    \A id \in 1..MaxUsers, tok \in 1..MaxTokens :
        LET res == verify_email_with_token(users, id, tok, now)
        IN  res.ret =>
            LET u == users[id]
                v == res.users[id]
            IN  /\ v.email_verified
                /\ v.verification_token = NoToken
                /\ v.verification_token_created_at = NoTime
                /\ u.role = "ANONYMOUS" => v.role = "AUTHENTICATED"
                /\ v.is_locked = u.is_locked
                /\ v.locked_at = u.locked_at
                /\ v.failed_login_attempts = u.failed_login_attempts

C7_Witness ==
    \E id \in DOMAIN users :
        /\ users[id].role = "AUTHENTICATED"
        /\ users[id].email_verified
        /\ users[id].verification_token = NoToken
        /\ users[id].verification_token_created_at = NoTime

\* C8: a rejected verify_email_with_token call leaves every account as it
\* was, and after an accepted verification a second call with the same
\* token is rejected and changes nothing.
C8_RejectedVerificationChangesNothing ==
    \A id \in 1..MaxUsers, tok \in 1..MaxTokens :
        LET res == verify_email_with_token(users, id, tok, now)
            again == verify_email_with_token(res.users, id, tok, now)
        IN  /\ ~res.ret => res.users = users
            /\ res.ret => ~again.ret /\ again.users = res.users

C8_Witness ==
    \E id \in DOMAIN users, tok \in 1..MaxTokens :
        /\ users[id].verification_token = tok
        /\ now - users[id].verification_token_created_at > 48
        /\ ~verify_email_with_token(users, id, tok, now).ret
        /\ verify_email_with_token(users, id, tok, now).users = users

\* C9: from an empty store the first account register creates is ADMIN,
\* verified and without a verification token; the second account created is
\* ANONYMOUS, unverified and holds a token with its creation timestamp.
C9_BootstrapAdmin ==
    \A e \in Emails, p \in Passwords, r \in UserRole, mail \in MailOutcomes :
        LET res == create(users, e, p, r, nextId, nextToken, now, mail)
        IN  res.ret # NoId =>
            LET v == res.users[res.ret]
            IN  /\ (nextId = 1 /\ users = <<>>) =>
                      /\ v.role = "ADMIN"
                      /\ v.email_verified
                      /\ v.verification_token = NoToken
                      /\ v.verification_token_created_at = NoTime
                /\ (nextId = 2 /\ DOMAIN users = {1}) =>
                      /\ v.role = "ANONYMOUS"
                      /\ ~v.email_verified
                      /\ v.verification_token # NoToken
                      /\ v.verification_token_created_at = now

C9_Witness ==
    /\ DOMAIN users = {1, 2}
    /\ users[1].role = "ADMIN" /\ users[1].email_verified
    /\ users[1].verification_token = NoToken
    /\ users[2].role = "ANONYMOUS" /\ ~users[2].email_verified
    /\ users[2].verification_token # NoToken
    /\ users[2].verification_token_created_at # NoTime

\* C10: register with a password that fails the strength policy, or with an
\* email that is already registered, returns no account, inserts nothing,
\* issues no verification token and sends no notification.
C10_RejectedRegisterChangesNothing ==
    \A e \in Emails, p \in Passwords, r \in UserRole, mail \in MailOutcomes :
        LET res == create(users, e, p, r, nextId, nextToken, now, mail)
            rt  == register(users, e, p, r, nextId, nextToken, now, mail)
        IN  (p = Weak \/ \E i \in DOMAIN users : users[i].email = e)
            =>
            /\ res.ret = NoId /\ res.users = users
            /\ res.issued = NoToken /\ res.mailed = NoToken
            /\ rt.status = 400 /\ rt.users = users
            /\ rt.issued = NoToken /\ rt.mailed = NoToken

C10_Witness ==
    \E e \in Emails :
        /\ Account(e) # NoId
        /\ create(users, e, StrongB, "ANONYMOUS", nextId, nextToken, now,
                  "sent").ret = NoId
        /\ create(users, e, StrongB, "ANONYMOUS", nextId, nextToken, now,
                  "sent").users = users

\* C11: reset_password(id, p) with a password passing the strength check on
\* an existing account replaces the password hash and sets is_locked = false,
\* failed_login_attempts = 0 and locked_at = null whatever the lock state
\* was; with a weak password or an unknown id it returns false and changes
\* nothing.
C11_ResetPasswordClearsLock ==
    \A id \in 1..MaxUsers, p \in Passwords :
        LET res == reset_password(users, id, p)
        IN  IF p # Weak /\ id \in DOMAIN users
            THEN /\ res.ret
                 /\ res.users =
                      [users EXCEPT ![id].hashed_password = hash_password(p),
                                    ![id].is_locked = FALSE,
                                    ![id].failed_login_attempts = 0,
                                    ![id].locked_at = NoTime]
                 /\ verify_password(p, res.users[id].hashed_password)
            ELSE ~res.ret /\ res.users = users

C11_Witness ==
    \E id \in DOMAIN users :
        /\ users[id].is_locked
        /\ users[id].locked_at = now
        /\ users[id].failed_login_attempts = 5
        /\ CorrectPassword(users[id]) # StrongB
        /\ ~reset_password(users, id, StrongB).users[id].is_locked
        /\ ~reset_password(users, id, Weak).ret

\* C12: after unlock_user_account on an existing account the account has
\* is_locked = false, failed_login_attempts = 0 and locked_at = null,
\* whatever its state before the call (a locked account, or an account that
\* is not locked but has a non-zero failure counter).
C12_ManualUnlockResets ==
    \A id \in DOMAIN users :
        LET v == unlock_user_account(users, id).users[id]
        IN  /\ ~v.is_locked
            /\ v.failed_login_attempts = 0
            /\ v.locked_at = NoTime

\* C13: in every reachable state every account with is_locked = true has
\* locked_at set.
C13_LockedHasLockedAt ==
    \A id \in DOMAIN users :
        users[id].is_locked => users[id].locked_at # NoTime

C13_Witness ==
    \E id \in DOMAIN users :
        /\ users[id].is_locked
        /\ users[id].locked_at # NoTime
        /\ users[id].locked_at > 0

\* C14: in every reachable state every account holding a verification token
\* has verification_token_created_at set.
C14_TokenHasTimestamp ==
    \A id \in DOMAIN users :
        users[id].verification_token # NoToken
        => users[id].verification_token_created_at # NoTime

C14_Witness ==
    \E id \in DOMAIN users :
        /\ users[id].verification_token = 2
        /\ users[id].verification_token_created_at > 0
        /\ ~users[id].email_verified

\* C19: once an account has been created, a later register yields role
\* ANONYMOUS and email_verified = false, even when every account has been
\* deleted since.
C19_AdminOnlyForFirstEver ==
    \A e \in Emails, p \in Passwords, r \in UserRole, mail \in MailOutcomes :
        LET res == create(users, e, p, r, nextId, nextToken, now, mail)
        IN  (nextId > 1 /\ res.ret # NoId) =>
            /\ res.users[res.ret].role = "ANONYMOUS"
            /\ ~res.users[res.ret].email_verified

\* C16: concurrent failed logins are neither lost nor double-counted: every
\* wrong-password login that commits on an open account adds exactly one to
\* the stored failed_login_attempts, and the account is locked exactly when
\* the stored count thereby reaches the threshold, as when the attempts run
\* one after another.
C16_FailedLoginsNotLost ==
    [][\A r \in 1..MaxReq :
          (req[r].pc = "commit_failed" /\ req'[r].pc = "done"
             /\ ~users[req[r].id].is_locked)
          => LET u == users[req[r].id]
                 v == users'[req[r].id]
             IN  /\ v.failed_login_attempts = u.failed_login_attempts + 1
                 /\ v.is_locked <=>
                      (u.failed_login_attempts + 1 >= max_login_attempts)]_vars

\* C17: the commit of a lazy auto-unlock never clears a lock whose locked_at
\* is at most 1 hour old and never zeroes the failures counted on an account
\* that another request has unlocked in the meantime.
C17_AutoUnlockAtomic ==
    [][\A r \in 1..MaxReq :
          (req[r].pc \in {"route_unlock", "inner_unlock"}
             /\ req'[r].pc # req[r].pc)
          => LET u == users[req[r].id]
                 v == users'[req[r].id]
             IN  /\ (u.is_locked /\ now - u.locked_at <= LOCKOUT_HOURS)
                      => v.is_locked
                 /\ ~u.is_locked
                      => v.failed_login_attempts = u.failed_login_attempts]_vars

\* C15: in every reachable state every account with email_verified = true
\* has no verification token and no token timestamp, under any interleaving
\* of verification and token re-issue requests whose read and commit are
\* separate steps.
C15_VerifiedHasNoToken ==
    \A id \in DOMAIN users :
        users[id].email_verified =>
            /\ users[id].verification_token = NoToken
            /\ users[id].verification_token_created_at = NoTime

\* C18: at most one account holds role ADMIN by the registration bootstrap
\* rule, under any interleaving of concurrent register calls on an empty
\* store.
C18_AtMostOneBootstrapAdmin ==
    Cardinality({id \in DOMAIN users : users[id].role = "ADMIN"}) <= 1

\* C20: no two stored accounts share an email, in every reachable state and
\* under any interleaving of concurrent register calls for the same email.
C20_EmailsUnique ==
    \A i \in DOMAIN users, j \in DOMAIN users :
        users[i].email = users[j].email => i = j

\* C21: re-issuing a verification token for an email that is unknown or
\* whose account is already verified is a no-op, through the service and
\* through POST /request-verification-email/: no token is generated, the
\* account's token and token timestamp stay null, no account changes and no
\* email is sent.
C21_ReissueForVerifiedIsNoOp ==
    \A e \in Emails, mail \in MailOutcomes :
        LET id == Account(e)
            g  == generate_new_verification_token(users, e, nextToken, now)
            rt == request_verification_email(users, e, nextToken, now, mail)
        IN  (id = NoId \/ users[id].email_verified)
            =>
            /\ ~g.ret /\ g.users = users
            /\ rt.users = users
            /\ rt.issued = NoToken /\ rt.mailed = NoToken
            /\ id # NoId =>
                  /\ g.users[id].verification_token = NoToken
                  /\ g.users[id].verification_token_created_at = NoTime
                  /\ rt.users[id].verification_token = NoToken
                  /\ rt.users[id].verification_token_created_at = NoTime

C21_Witness ==
    \E e \in Emails, f \in Emails :
        /\ Account(e) # NoId
        /\ users[Account(e)].email_verified
        /\ users[Account(e)].role = "AUTHENTICATED"
        /\ ~generate_new_verification_token(users, e, nextToken, now).ret
        /\ Account(f) = NoId
        /\ ~generate_new_verification_token(users, f, nextToken, now).ret

\* C22: after a new token is issued for an unverified account, the token
\* the account held before is rejected by verify_email_with_token and the
\* new token is the only one accepted.
C22_NewTokenInvalidatesOld ==
    \A e \in Emails :
        LET id  == Account(e)
            g   == generate_new_verification_token(users, e, nextToken, now)
        IN  (id # NoId /\ ~users[id].email_verified)
            =>
            /\ g.ret
            /\ \A tok \in 1..nextToken :
                  verify_email_with_token(g.users, id, tok, now).ret
                  <=> tok = nextToken
            /\ users[id].verification_token # NoToken =>
                  ~verify_email_with_token(g.users, id,
                        users[id].verification_token, now).ret

C22_Witness ==
    \E id \in DOMAIN users :
        /\ ~users[id].email_verified
        /\ users[id].verification_token = 2
        /\ ~verify_email_with_token(users, id, 1, now).ret
        /\ verify_email_with_token(users, id, 2, now).ret

\* C23: POST /request-verification-email/ answers with the same status and
\* the same message body for an unknown email, a verified account and an
\* unverified account, for every outcome of the notification send.
C23_UniformVerificationResponse ==
    \A e \in Emails, mail \in MailOutcomes :
        LET rt == request_verification_email(users, e, nextToken, now, mail)
        IN  /\ rt.status = 200
            /\ rt.body = VerificationRequestedMessage

\* C24: POST /login/ answers 401 with the same detail for an absent account,
\* an unverified account and a wrong password; only an account that is still
\* locked is answered differently, with 400 and the locked detail.
C24_UniformLoginFailure ==
    \A e \in Emails, p \in Passwords :
        LET id == Account(e)
            rt == login(users, e, p, now)
            stillLocked == /\ id # NoId
                           /\ users[id].is_locked
                           /\ now - users[id].locked_at <= 1
        IN  IF stillLocked
            THEN /\ rt.status = 400 /\ rt.detail = AccountLockedDetail
                 /\ rt.jwt = NoJwt
            ELSE IF \/ id = NoId
                    \/ ~users[id].email_verified
                    \/ p # CorrectPassword(users[id])
            THEN /\ rt.status = 401 /\ rt.detail = IncorrectLoginDetail
                 /\ rt.jwt = NoJwt
            ELSE rt.status = 200

C24_Witness ==
    \E f \in Emails, g \in Emails :
        /\ Account(f) # NoId /\ ~users[Account(f)].email_verified
        /\ ~users[Account(f)].is_locked
        /\ Account(g) # NoId /\ users[Account(g)].email_verified
        /\ ~users[Account(g)].is_locked
        /\ CorrectPassword(users[Account(g)]) # StrongB
        /\ login(users, f, CorrectPassword(users[Account(f)]), now).status
             = 401
        /\ login(users, g, StrongB, now).status = 401
        /\ login(users, g, StrongB, now).detail
             = login(users, f, CorrectPassword(users[Account(f)]),
                     now).detail

\* C28: a failure of the verification-email send during register does not
\* prevent the registration: the account is stored with its verification
\* token and token timestamp and register returns the created account.
C28_MailFailureKeepsRegistration ==
    \A e \in Emails, p \in Passwords, r \in UserRole,
       mail \in MailOutcomes \ {"sent"} :
        LET rt == register(users, e, p, r, nextId, nextToken, now, mail)
        IN  (p # Weak /\ Account(e) = NoId /\ users # <<>>)
            =>
            /\ rt.status = 200 /\ rt.user = nextId
            /\ nextId \in DOMAIN rt.users
            /\ rt.users[nextId].email = e
            /\ rt.users[nextId].verification_token = nextToken
            /\ rt.users[nextId].verification_token_created_at = now
            /\ ~rt.users[nextId].email_verified
            /\ rt.mailed = NoToken

C28_Witness ==
    \E e \in Emails :
        /\ DOMAIN users = {1}
        /\ nextId = 2
        /\ Account(e) = NoId
        /\ register(users, e, StrongA, "ANONYMOUS", nextId, nextToken, now,
                    "error").status = 200
        /\ register(users, e, StrongA, "ANONYMOUS", nextId, nextToken, now,
                    "smtp_error").users[nextId].verification_token
             = nextToken

\* the recorded timestamps of a key that are less than w seconds old
Recent(client_ip, w) ==
    LET ts == Timestamps(auth_request_timestamps, client_ip)
    IN  Cardinality({i \in DOMAIN ts : clock - ts[i] < w})

\* C25: check_rate_limit(key) returns 0 when fewer than 5 recorded
\* timestamps of the key are less than 60 s old before the call is
\* recorded, and otherwise min(2^(count - 5), 30) for that count; it records
\* the call and leaves the other keys' lists alone.
C25_RateLimitDelay ==
    \A k \in ClientKeys :
        LET n == Recent(k, 60)
            res == check_rate_limit(auth_request_timestamps, k, clock)
        IN  /\ n < 5 => res.delay = 0
            /\ n >= 5 =>
                  res.delay = IF n - 5 >= 5 THEN 30 ELSE 2 ^ (n - 5)
            /\ Len(res.timestamps[k]) = n + 1
            /\ res.timestamps[k][n + 1] = clock
            /\ \A c \in DOMAIN auth_request_timestamps \ {k} :
                  res.timestamps[c] = auth_request_timestamps[c]

C25_Witness ==
    \E k \in ClientKeys :
        /\ k \in DOMAIN auth_request_timestamps
        /\ Len(auth_request_timestamps[k]) = 5
        /\ Recent(k, 60) = 5
        /\ clock - auth_request_timestamps[k][1] = 30
        /\ check_rate_limit(auth_request_timestamps, k, clock).delay = 1

\* The delays of two consecutive calls for one key, the second d seconds
\* after the first.
FirstCall(k) == check_rate_limit(auth_request_timestamps, k, clock)
SecondCall(k, d) == check_rate_limit(FirstCall(k).timestamps, k, clock + d)

\* C26 as claimed: over any sequence of check_rate_limit calls at
\* non-decreasing times the delay never exceeds 30 s and the delay of a
\* call is never smaller than the delay of the previous call for the key.
C26_DelayNeverDecreases ==
    \A k \in ClientKeys, d \in ClockSteps \cup {0} :
        /\ FirstCall(k).delay <= 30
        /\ SecondCall(k, d).delay <= 30
        /\ SecondCall(k, d).delay >= FirstCall(k).delay

\* C26 amended: the delay never exceeds 30 s, and the delay of a call is
\* never smaller than the delay of the previous call for the key when no
\* timestamp recorded for the key has left the 60 s window between the two
\* calls.
C26_DelayCappedAndMonotoneInWindow ==
    \A k \in ClientKeys, d \in ClockSteps \cup {0} :
        LET ts1 == FirstCall(k).timestamps[k]
        IN  /\ FirstCall(k).delay <= 30
            /\ SecondCall(k, d).delay <= 30
            /\ (\A i \in DOMAIN ts1 : clock + d - ts1[i] < 60)
                  => SecondCall(k, d).delay >= FirstCall(k).delay

C26_Witness ==
    \E k \in ClientKeys :
        /\ Recent(k, 60) = 10
        /\ FirstCall(k).delay = 30
        /\ SecondCall(k, 0).delay = 30
        /\ SecondCall(k, 60).delay = 0

\* C27: registration is throttled more strictly than login: from one
\* client, a POST /register/ that follows 3 requests made within the last
\* hour receives a non-zero delay, while a POST /login/ that follows 3
\* requests made within the last 60 s receives delay 0.
C27_RegisterStricterThanLogin ==
    \A k \in ClientKeys :
        /\ Recent(k, 3600) >= 3 =>
              register_rate_limit(auth_request_timestamps, k, clock).delay > 0
        /\ Recent(k, 60) = 3 =>
              login_rate_limit(auth_request_timestamps, k, clock).delay = 0

\* C29: register always terminates: a request that has entered the
\* nickname-uniqueness loop leaves it, even when the generated nicknames
\* collide with nicknames of stored accounts.
C29_NicknameLoopTerminates ==
    \A r \in 1..MaxReq :
        (req[r].pc = "nickname") ~> (req[r].pc # "nickname")

\* C30: a profile update whose request contains no non-null field is
\* rejected and changes nothing on the account, updated_at included; an
\* accepted update changes only the fields present in the request and
\* updated_at, on that account alone.
C30_EmptyProfileUpdateRejected ==
    \A user_id \in 1..(MaxUsers + 1), profile_data \in ProfileRequests :
        LET rt == update_profile(profiles, user_id, profile_data, now)
        IN  /\ (\A f \in DOMAIN profile_data : profile_data[f] = Null)
                  => rt.status # 200 /\ rt.profiles = profiles
            /\ rt.status = 200 =>
                  /\ \A i \in DOMAIN profiles \ {user_id} :
                        rt.profiles[i] = profiles[i]
                  /\ \A f \in ProfileFields \ DOMAIN profile_data :
                        rt.profiles[user_id][f] = profiles[user_id][f]

\* C31: validate_password_strength(p) is true iff p has at least 8
\* characters and holds an uppercase letter, a lowercase letter, a digit and
\* a character of the special-character set.
C31_StrengthIffAllRules ==
    LET Holding(S) == {i \in DOMAIN password : password[i] \in S}
    IN  accepted <=>
            /\ Len(password) >= 8
            /\ Holding(Upper) # {}
            /\ Holding(Lower) # {}
            /\ Holding(Digit) # {}
            /\ Holding(special_chars) # {}

C31_Witness == accepted /\ Len(password) = 8

\* C32: rate limiting is per client key: a call check_rate_limit(k1)
\* changes only k1's timestamp sequence, and the delay returned for another
\* key k2 depends only on k2's own earlier requests, however many requests
\* k1 has made.
C32_PerClientKey ==
    \A k1 \in ClientKeys : \A k2 \in ClientKeys \ {k1} :
        LET after == check_rate_limit(auth_request_timestamps, k1,
                                      clock).timestamps
        IN  /\ Timestamps(after, k2)
                  = Timestamps(auth_request_timestamps, k2)
            /\ check_rate_limit(after, k2, clock).delay
                  = check_rate_limit(auth_request_timestamps, k2,
                                     clock).delay
            /\ check_rate_limit(after, k2, clock).delay
                  = check_rate_limit([c \in {k2} |->
                        Timestamps(auth_request_timestamps, k2)],
                                     k2, clock).delay

C32_Witness ==
    \E k1 \in ClientKeys : \E k2 \in ClientKeys \ {k1} :
        /\ Recent(k1, 60) = 10
        /\ Recent(k2, 60) = 2
        /\ check_rate_limit(auth_request_timestamps, k1, clock).delay = 30
        /\ check_rate_limit(auth_request_timestamps, k2, clock).delay = 0

\* C33: throttling ends once the window has passed: when every timestamp
\* recorded for a key is 60 s old or older (the boundary included), the
\* key's next check_rate_limit call prunes them all and returns 0.
C33_ThrottlingEndsAfterWindow ==
    \A k \in ClientKeys :
        LET ts  == Timestamps(auth_request_timestamps, k)
            res == check_rate_limit(auth_request_timestamps, k, clock)
        IN  (\A i \in DOMAIN ts : clock - ts[i] >= 60)
                => /\ res.delay = 0
                   /\ res.timestamps[k] = <<clock>>

C33_Witness ==
    \E k \in ClientKeys :
        LET ts == Timestamps(auth_request_timestamps, k)
        IN  /\ Len(ts) >= 6
            /\ \A i \in DOMAIN ts : clock - ts[i] = 60
            /\ check_rate_limit(auth_request_timestamps, k, clock).delay = 0
            /\ check_rate_limit(auth_request_timestamps, k,
                                ts[1]).delay > 0

\* C34: every check_rate_limit call records its timestamp, the calls that
\* return a non-zero delay included, so throttled requests count towards
\* the delay of later requests: for a client that keeps sending requests
\* inside the window the delay doubles with each request up to the cap.
C34_ThrottledCallsAreRecorded ==
    \A k \in ClientKeys :
        LET first == FirstCall(k)
            n     == Len(first.timestamps[k])
        IN  /\ n = Recent(k, 60) + 1
            /\ first.timestamps[k][n] = clock
            /\ first.delay > 0 =>
                  SecondCall(k, 0).delay
                      = IF 2 * first.delay > 30 THEN 30 ELSE 2 * first.delay

C34_Witness ==
    \E k \in ClientKeys :
        /\ Recent(k, 60) = 7
        /\ FirstCall(k).delay = 4
        /\ SecondCall(k, 0).delay = 8
        /\ Len(SecondCall(k, 0).timestamps[k]) = 9

\* C35: lockout is temporary: for a locked, verified account, once more
\* than 1 hour has passed since locked_at, the next /login/ request with the
\* correct password succeeds and issues a token without any administrative
\* action, the auto-unlock being applied inside that same request.
C35_LockoutIsTemporary ==
    \A e \in Emails :
        LET id == Account(e)
        IN  ( /\ id # NoId
              /\ users[id].email_verified
              /\ users[id].is_locked
              /\ users[id].locked_at # NoTime
              /\ now - users[id].locked_at > 1 )
            =>
            LET rt == login(users, e, CorrectPassword(users[id]), now)
            IN  /\ rt.status = 200
                /\ rt.jwt = [sub |-> e, role |-> users[id].role]
                /\ ~rt.users[id].is_locked
                /\ rt.users[id].failed_login_attempts = 0
                /\ rt.users[id].locked_at = NoTime
                /\ rt.users[id].last_login_at = now

C35_Witness ==
    \E e \in Emails :
        LET id == Account(e)
        IN  /\ id # NoId
            /\ users[id].email_verified
            /\ users[id].is_locked
            /\ users[id].failed_login_attempts = 5
            /\ now - users[id].locked_at = 2
            /\ login(users, e, CorrectPassword(users[id]), now).status = 200

\* C36: register-verify-login round trip: an account that is not the first,
\* registered with email e and password p and then verified with its issued
\* token, can log in with (e, p) and cannot log in with (e, q) for any q
\* different from p; the first (bootstrap) account can log in with its
\* password without any verification step.
C36_RegisterVerifyLogin ==
    \A e \in Emails, p \in Passwords, r \in RequestRoles,
       mail \in MailOutcomes, d \in {0, TOKEN_TTL_HOURS} :
        LET reg == register(users, e, p, r, nextId, nextToken, now, mail)
            id  == reg.user
        IN  reg.status = 200 =>
            IF users = <<>>
            THEN /\ login(reg.users, e, p, now + d).status = 200
                 /\ \A q \in Passwords \ {p} :
                       login(reg.users, e, q, now + d).status # 200
            ELSE LET ver == verify_email(reg.users, id, reg.issued, now + d)
                 IN  /\ reg.issued # NoToken
                     /\ login(reg.users, e, p, now + d).status # 200
                     /\ ver.status = 200
                     /\ login(ver.users, e, p, now + d).status = 200
                     /\ login(ver.users, e, p, now + d).jwt.sub = e
                     /\ \A q \in Passwords \ {p} :
                           /\ login(ver.users, e, q, now + d).status # 200
                           /\ login(ver.users, e, q, now + d).jwt = NoJwt

C36_Witness ==
    /\ DOMAIN users = {1, 2}
    /\ users[1].role = "ADMIN"
    /\ users[1].last_login_at # NoTime
    /\ users[2].email_verified /\ users[2].role = "AUTHENTICATED"
    /\ users[2].last_login_at # NoTime
    /\ users[2].failed_login_attempts = 0
    /\ login(users, users[2].email, CorrectPassword(users[2]), now).status
          = 200
    /\ login(users, users[2].email, StrongB, now).status = 401

\* C37: the role stored for an account created by register depends only on
\* whether the store was empty at that moment: two registrations that differ
\* only in the role value of the request produce accounts with the same
\* role, so a caller cannot give itself a role through the request.
C37_RequestRoleIgnored ==
    \A e \in Emails, p \in Passwords, mail \in MailOutcomes :
        LET a == register(users, e, p, "ANONYMOUS", nextId, nextToken, now,
                          mail)
        IN  /\ a.status = 200 =>
                  a.users[a.user].role
                      = IF users = <<>> THEN "ADMIN" ELSE "ANONYMOUS"
            /\ \A r \in UserRole \ {"ANONYMOUS"} :
                  LET b == register(users, e, p, r, nextId, nextToken, now,
                                    mail)
                  IN  a.status = b.status /\ a.users = b.users

C37_Witness ==
    /\ DOMAIN users = {1, 2}
    /\ users[1].role = "ADMIN"
    /\ users[2].role = "ANONYMOUS"
    /\ register(users, "c@x.io", StrongA, "ADMIN", nextId, nextToken, now,
                "sent").users[nextId].role = "ANONYMOUS"

\* C38: after any sequence of service operations applied one at a time
\* (register, login, lock-status query, manual unlock, password reset,
\* verification), every account has 0 <= failed_login_attempts <=
\* max_login_attempts and is locked exactly when failed_login_attempts >=
\* max_login_attempts.
C38_CounterBoundedAndLockedIffAtThreshold ==
    \A id \in DOMAIN users :
        /\ 0 <= users[id].failed_login_attempts
        /\ users[id].failed_login_attempts <= max_login_attempts
        /\ users[id].is_locked
              <=> users[id].failed_login_attempts >= max_login_attempts

C38_Witness ==
    \E id \in DOMAIN users, jd \in DOMAIN users :
        /\ users[id].is_locked
        /\ users[id].failed_login_attempts = max_login_attempts
        /\ ~users[jd].is_locked
        /\ users[jd].failed_login_attempts = max_login_attempts - 1

====
